---- MODULE Spec2Model ----
(***************************************************************************)
(* Simplified DES (src/s_des.py): the bit-string primitives, the S-box     *)
(* lookup, the key schedule, the round function fk and the encrypt and     *)
(* decrypt drivers, modelled as a caller that invokes one function of the  *)
(* module at a time.  A bit string is a sequence of the characters "0" and *)
(* "1", as in the source.  encrypt and decrypt run one statement per step. *)
(***************************************************************************)
EXTENDS Integers, Sequences, FiniteSets, TLC

VARIABLES
    pc,       \* "idle", the line of encrypt/decrypt about to run, or "done"
    fn,       \* the function being called
    a1, a2,   \* its first and second argument
    K1, K2,   \* locals of encrypt/decrypt: the subkeys
    ip, r1, swapped, r2,   \* locals of encrypt/decrypt
    ret,      \* the returned value
    trace,    \* the stages the current encrypt/decrypt call has performed
    calls,    \* number of encrypt/decrypt calls the caller has started
    orig      \* the block the caller passed to its first encrypt/decrypt call

vars == <<pc, fn, a1, a2, K1, K2, ip, r1, swapped, r2, ret, trace, calls, orig>>

(***************************************************************************)
(* Bounds of the caller's inputs.                                          *)
(***************************************************************************)
\* longest bit string the caller passes to left_shift and xor
MaxLen == 5
\* largest shift amount (in absolute value) passed to left_shift
MaxShift == 7
\* encrypt/decrypt are called with the keys that differ from the self-test
\* key in their first FreeKeyBits characters only
FreeKeyBits == 8

(***************************************************************************)
(* The tables, src/s_des.py lines 5-24.                                    *)
(***************************************************************************)
P10 == <<3, 5, 2, 7, 4, 10, 1, 9, 8, 6>>
P8 == <<6, 3, 7, 4, 8, 5, 10, 9>>
IP == <<2, 6, 3, 1, 4, 8, 5, 7>>
\* IP_INV with its last two entries exchanged
IP_INV_exchanged == <<4, 1, 3, 5, 7, 2, 6, 8>>
IP_INV == <<4, 1, 3, 5, 7, 2, 8, 6>>
EP == <<4, 1, 2, 3, 2, 3, 4, 1>>
P4 == <<2, 4, 3, 1>>

\* S0 with the last two entries of its first row exchanged
S0_typo == << <<1, 0, 2, 3>>,
              <<3, 2, 1, 0>>,
              <<0, 2, 1, 3>>,
              <<3, 1, 3, 2>> >>
S0 == << <<1, 0, 3, 2>>,
         <<3, 2, 1, 0>>,
         <<0, 2, 1, 3>>,
         <<3, 1, 3, 2>> >>
S1 == << <<0, 1, 2, 3>>,
         <<2, 0, 1, 3>>,
         <<3, 0, 1, 0>>,
         <<2, 1, 0, 3>> >>

Bit == {"0", "1"}
BitStrings(n) == [1..n -> Bit]
BitStringsUpTo(n) == UNION {BitStrings(k) : k \in 0..n}

Min(x, y) == IF x <= y THEN x ELSE y
Max(x, y) == IF x >= y THEN x ELSE y

\* the outcome of a subscript out of range: no bit string
IndexError == <<"IndexError">>

(***************************************************************************)
(* permute: ''.join(bits[i-1] for i in table).  Every table entry is >= 1, *)
(* so bits[i-1] is the i-th character counted from 1, and an entry beyond  *)
(* len(bits) raises IndexError.                                            *)
(***************************************************************************)
permute(bits, table) ==
    IF \E i \in 1..Len(table) : table[i] > Len(bits)
    THEN IndexError
    ELSE [i \in 1..Len(table) |-> bits[table[i]]]

(***************************************************************************)
(* Python's slice bound: bits[n:] starts at, and bits[:n] stops at, offset *)
(* n clamped to 0..len(bits), a negative n counting from the end.          *)
(***************************************************************************)
SliceBound(n, len) == IF n < 0 THEN Max(len + n, 0) ELSE Min(n, len)

\* left_shift: bits[n:] + bits[:n]
left_shift(bits, n) ==
    LET k == SliceBound(n, Len(bits))
    IN  SubSeq(bits, k + 1, Len(bits)) \o SubSeq(bits, 1, k)

\* xor rejecting operands of different lengths
xor_strict(a, b) ==
    IF Len(a) # Len(b) THEN <<"ValueError">>
    ELSE [i \in 1..Len(a) |-> IF a[i] = b[i] THEN "0" ELSE "1"]

\* xor: zip(a, b) stops at the shorter operand
xor(a, b) ==
    [i \in 1..Min(Len(a), Len(b)) |-> IF a[i] = b[i] THEN "0" ELSE "1"]

\* int(s, 2) on a string of binary digits
RECURSIVE int2(_)
int2(s) ==
    IF Len(s) = 0 THEN 0
    ELSE 2 * int2(SubSeq(s, 1, Len(s) - 1)) + (IF s[Len(s)] = "1" THEN 1 ELSE 0)

\* the binary digits of val >= 0, most significant first, no padding
RECURSIVE bin(_)
bin(val) ==
    IF val < 2 THEN << IF val = 1 THEN "1" ELSE "0" >>
    ELSE bin(val \div 2) \o << IF val % 2 = 1 THEN "1" ELSE "0" >>

\* format(val, '02b'): the binary digits, zero-padded on the left to width 2
format02b(val) ==
    LET d == bin(val)
    IN  IF Len(d) < 2 THEN <<"0">> \o d ELSE d

\* sbox_lookup taking the row from the first two bits and the column from the last two
sbox_lookup_adjacent(bits4, sbox) ==
    LET row == int2(SubSeq(bits4, 1, 2))
        col == int2(SubSeq(bits4, 3, 4))
        val == sbox[row + 1][col + 1]
    IN  format02b(val)

\* sbox_lookup: Python subscripts count from 0, TLA+ sequences from 1
sbox_lookup(bits4, sbox) ==
    LET row == int2(<<bits4[1], bits4[4]>>)
        col == int2(SubSeq(bits4, 2, 3))
        val == sbox[row + 1][col + 1]
    IN  format02b(val)

\* fk substituting both halves through S0
fk_S0_twice(bits8, subkey8) ==
    LET L == SubSeq(bits8, 1, 4)
        R == SubSeq(bits8, 5, Len(bits8))
        ER == permute(R, EP)
        x == xor(ER, subkey8)
        left4 == SubSeq(x, 1, 4)
        right4 == SubSeq(x, 5, Len(x))
        s_out == sbox_lookup(left4, S0) \o sbox_lookup(right4, S0)
        p4 == permute(s_out, P4)
        newL == xor(L, p4)
    IN  newL \o R

fk(bits8, subkey8) ==
    LET L == SubSeq(bits8, 1, 4)
        R == SubSeq(bits8, 5, Len(bits8))
        ER == permute(R, EP)
        x == xor(ER, subkey8)
        left4 == SubSeq(x, 1, 4)
        right4 == SubSeq(x, 5, Len(x))
        s_out == sbox_lookup(left4, S0) \o sbox_lookup(right4, S1)
        p4 == permute(s_out, P4)
        newL == xor(L, p4)
    IN  newL \o R

\* generate_subkeys shifting the original halves by 2 for K2
generate_subkeys_from_original(key10) ==
    LET p10 == permute(key10, P10)
        L == SubSeq(p10, 1, 5)
        R == SubSeq(p10, 6, Len(p10))
        L1 == left_shift(L, 1)
        R1 == left_shift(R, 1)
        k1 == permute(L1 \o R1, P8)
        L2 == left_shift(L, 2)
        R2 == left_shift(R, 2)
        k2 == permute(L2 \o R2, P8)
    IN  <<k1, k2>>

\* generate_subkeys returns the pair <<K1, K2>>
generate_subkeys(key10) ==
    LET p10 == permute(key10, P10)
        L == SubSeq(p10, 1, 5)
        R == SubSeq(p10, 6, Len(p10))
        L1 == left_shift(L, 1)
        R1 == left_shift(R, 1)
        k1 == permute(L1 \o R1, P8)
        L2 == left_shift(L1, 2)
        R2 == left_shift(R1, 2)
        k2 == permute(L2 \o R2, P8)
    IN  <<k1, k2>>

\* swapped = r1[4:] + r1[:4]
swap_halves(r) == SubSeq(r, 5, Len(r)) \o SubSeq(r, 1, 4)

(***************************************************************************)
(* The caller's inputs.                                                    *)
(***************************************************************************)
\* key = "1010000010" of the self-test
SelfTestKey == <<"1", "0", "1", "0", "0", "0", "0", "0", "1", "0">>
\* plaintext = "11010111" of the self-test
SelfTestPlaintext == <<"1", "1", "0", "1", "0", "1", "1", "1">>
\* expected_cipher = "10101000" of the self-test
SelfTestCipher == <<"1", "0", "1", "0", "1", "0", "0", "0">>

Tables == {P10, P8, IP, IP_INV, EP, P4}
Sboxes == {S0, S1}
Blocks == BitStrings(8)
AllKeys == BitStrings(10)
\* the keys encrypt and decrypt are called with
Keys == {k \in AllKeys : \A i \in (FreeKeyBits + 1)..10 : k[i] = SelfTestKey[i]}

None == <<>>

Init ==
    /\ pc = "idle"
    /\ fn = "none"
    /\ a1 = None /\ a2 = None
    /\ K1 = None /\ K2 = None
    /\ ip = None /\ r1 = None /\ swapped = None /\ r2 = None
    /\ ret = None
    /\ trace = <<>>
    /\ calls = 0
    /\ orig = None

locals == <<K1, K2, ip, r1, swapped, r2>>

\* a call of a function that has no calls of its own worth a step: it returns
Returns(f, x, y, value) ==
    /\ pc' = "done"
    /\ fn' = f
    /\ a1' = x /\ a2' = y
    /\ ret' = value
    /\ UNCHANGED <<locals, trace, calls, orig>>

Call_permute ==
    /\ pc = "idle"
    /\ \E bits \in BitStrings(4) \cup BitStrings(8) \cup BitStrings(10), table \in Tables :
        Returns("permute", bits, table, permute(bits, table))

Call_left_shift ==
    /\ pc = "idle"
    /\ \E bits \in BitStringsUpTo(MaxLen), n \in (0 - MaxShift)..MaxShift :
        Returns("left_shift", bits, n, left_shift(bits, n))

Call_xor ==
    /\ pc = "idle"
    /\ \E a \in BitStringsUpTo(MaxLen), b \in BitStringsUpTo(MaxLen) :
        Returns("xor", a, b, xor(a, b))

Call_sbox_lookup ==
    /\ pc = "idle"
    /\ \E bits4 \in BitStrings(4), sbox \in Sboxes :
        Returns("sbox_lookup", bits4, sbox, sbox_lookup(bits4, sbox))

Call_fk ==
    /\ pc = "idle"
    /\ \E bits8 \in Blocks, subkey8 \in BitStrings(8) :
        Returns("fk", bits8, subkey8, fk(bits8, subkey8))

Call_generate_subkeys ==
    /\ pc = "idle"
    /\ \E key10 \in AllKeys :
        Returns("generate_subkeys", key10, None, generate_subkeys(key10))

(***************************************************************************)
(* encrypt and decrypt, one statement per step.  pc names the line about   *)
(* to run; a1 is plaintext8 / cipher8 and a2 is key10.                     *)
(***************************************************************************)
Enter(f, text, key10, line) ==
    /\ pc' = line
    /\ fn' = f
    /\ a1' = text /\ a2' = key10
    /\ K1' = None /\ K2' = None
    /\ ip' = None /\ r1' = None /\ swapped' = None /\ r2' = None
    /\ ret' = None
    /\ trace' = <<>>
    /\ calls' = calls + 1

Call_encrypt ==
    /\ pc = "idle"
    /\ \E plaintext8 \in Blocks, key10 \in Keys :
        /\ Enter("encrypt", plaintext8, key10, "L75")
        /\ orig' = plaintext8

Call_decrypt ==
    /\ pc = "idle"
    /\ \E cipher8 \in Blocks, key10 \in Keys :
        /\ Enter("decrypt", cipher8, key10, "L85")
        /\ orig' = cipher8

\* a step of the running call: from line `at` to line `to`, performing `stage`
Step(f, at, to, stage) ==
    /\ fn = f
    /\ pc = at
    /\ pc' = to
    /\ trace' = Append(trace, stage)
    /\ UNCHANGED <<fn, a1, a2, calls, orig>>

enc_L75 ==
    /\ Step("encrypt", "L75", "L76", "generate_subkeys")
    /\ K1' = generate_subkeys(a2)[1]
    /\ K2' = generate_subkeys(a2)[2]
    /\ UNCHANGED <<ip, r1, swapped, r2, ret>>

enc_L76 ==
    /\ Step("encrypt", "L76", "L77", "IP")
    /\ ip' = permute(a1, IP)
    /\ UNCHANGED <<K1, K2, r1, swapped, r2, ret>>

enc_L77 ==
    /\ Step("encrypt", "L77", "L78", "fk(K1)")
    /\ r1' = fk(ip, K1)
    /\ UNCHANGED <<K1, K2, ip, swapped, r2, ret>>

enc_L78 ==
    /\ Step("encrypt", "L78", "L79", "swap")
    /\ swapped' = swap_halves(r1)
    /\ UNCHANGED <<K1, K2, ip, r1, r2, ret>>

\* encrypt running its second round with K1 again
enc_L79_K1_again ==
    /\ Step("encrypt", "L79", "L80", "fk(K1)")
    /\ r2' = fk(swapped, K1)
    /\ UNCHANGED <<K1, K2, ip, r1, swapped, ret>>

enc_L79 ==
    /\ Step("encrypt", "L79", "L80", "fk(K2)")
    /\ r2' = fk(swapped, K2)
    /\ UNCHANGED <<K1, K2, ip, r1, swapped, ret>>

\* ciphertext = permute(r2, IP_INV); return ciphertext
enc_L80 ==
    /\ Step("encrypt", "L80", "done", "IP_INV")
    /\ ret' = permute(r2, IP_INV)
    /\ UNCHANGED <<K1, K2, ip, r1, swapped, r2>>

dec_L85 ==
    /\ Step("decrypt", "L85", "L86", "generate_subkeys")
    /\ K1' = generate_subkeys(a2)[1]
    /\ K2' = generate_subkeys(a2)[2]
    /\ UNCHANGED <<ip, r1, swapped, r2, ret>>

dec_L86 ==
    /\ Step("decrypt", "L86", "L87", "IP")
    /\ ip' = permute(a1, IP)
    /\ UNCHANGED <<K1, K2, r1, swapped, r2, ret>>

\* decrypt using the subkeys in encrypt's order
dec_L87_K1_first ==
    /\ Step("decrypt", "L87", "L88", "fk(K1)")
    /\ r1' = fk(ip, K1)
    /\ UNCHANGED <<K1, K2, ip, swapped, r2, ret>>

dec_L87 ==
    /\ Step("decrypt", "L87", "L88", "fk(K2)")
    /\ r1' = fk(ip, K2)
    /\ UNCHANGED <<K1, K2, ip, swapped, r2, ret>>

\* decrypt without the swap between its rounds
dec_L88_no_swap ==
    /\ Step("decrypt", "L88", "L89", "swap")
    /\ swapped' = r1
    /\ UNCHANGED <<K1, K2, ip, r1, r2, ret>>

dec_L88 ==
    /\ Step("decrypt", "L88", "L89", "swap")
    /\ swapped' = swap_halves(r1)
    /\ UNCHANGED <<K1, K2, ip, r1, r2, ret>>

dec_L89 ==
    /\ Step("decrypt", "L89", "L90", "fk(K1)")
    /\ r2' = fk(swapped, K1)
    /\ UNCHANGED <<K1, K2, ip, r1, swapped, ret>>

\* plaintext = permute(r2, IP_INV); return plaintext
dec_L90 ==
    /\ Step("decrypt", "L90", "done", "IP_INV")
    /\ ret' = permute(r2, IP_INV)
    /\ UNCHANGED <<K1, K2, ip, r1, swapped, r2>>

(***************************************************************************)
(* The caller feeds the result of its first call to the opposite function  *)
(* under the same key: ct = encrypt(plaintext, key); pt = decrypt(ct, key) *)
(* as the self-test does, and the same the other way round.                *)
(***************************************************************************)
Then_decrypt ==
    /\ pc = "done" /\ fn = "encrypt" /\ calls = 1
    /\ Enter("decrypt", ret, a2, "L85")
    /\ UNCHANGED orig

Then_encrypt ==
    /\ pc = "done" /\ fn = "decrypt" /\ calls = 1
    /\ Enter("encrypt", ret, a2, "L75")
    /\ UNCHANGED orig

Next ==
    \/ Call_permute
    \/ Call_left_shift
    \/ Call_xor
    \/ Call_sbox_lookup
    \/ Call_fk
    \/ Call_generate_subkeys
    \/ Call_encrypt
    \/ Call_decrypt
    \/ enc_L75 \/ enc_L76 \/ enc_L77 \/ enc_L78 \/ enc_L79 \/ enc_L80
    \/ dec_L85 \/ dec_L86 \/ dec_L87 \/ dec_L88 \/ dec_L89 \/ dec_L90
    \/ Then_decrypt
    \/ Then_encrypt

Spec == Init /\ [][Next]_vars

(***************************************************************************)
(* Properties.                                                             *)
(***************************************************************************)
IsBitString(s) == \A i \in 1..Len(s) : s[i] \in Bit
\* the bit a character stands for
BitOf(c) == IF c = "1" THEN 1 ELSE 0
\* the character of a bit
CharOf(b) == IF b = 1 THEN "1" ELSE "0"
\* bits rotated left by n positions, circularly
Rot(bits, n) == [i \in 1..Len(bits) |-> bits[((i - 1 + n) % Len(bits)) + 1]]
\* the halves of an 8-bit block
Left4(x) == <<x[1], x[2], x[3], x[4]>>
Right4(x) == <<x[5], x[6], x[7], x[8]>>
\* position-wise exclusive or of two strings of the same length
BitXor(a, b) == [i \in 1..Len(a) |-> CharOf((BitOf(a[i]) + BitOf(b[i])) % 2)]
\* IP, fk with Ka, swap of the halves, fk with Kb, IP_INV
Pipeline(text, Ka, Kb) ==
    LET round1 == fk(permute(text, IP), Ka)
        round2 == fk(Right4(round1) \o Left4(round1), Kb)
    IN  permute(round2, IP_INV)

Returned(f) == pc = "done" /\ fn = f

\* C1: the caller that decrypts, under the same key, what encrypt returned
\* gets its plaintext back: decrypt(encrypt(P, K), K) = P.
C1_RoundTrip ==
    (Returned("decrypt") /\ calls = 2) => ret = orig

C1_Witness ==
    /\ Returned("decrypt") /\ calls = 2
    /\ a1 # orig
    /\ a2 # SelfTestKey
    /\ ret = orig

\* C2: encrypt("11010111", "1010000010") returns "10101000" and
\* decrypt("10101000", "1010000010") returns "11010111".
C2_KnownVector ==
    /\ (Returned("encrypt") /\ a1 = SelfTestPlaintext /\ a2 = SelfTestKey)
            => ret = SelfTestCipher
    /\ (Returned("decrypt") /\ a1 = SelfTestCipher /\ a2 = SelfTestKey)
            => ret = SelfTestPlaintext

\* the self-test's two calls: encrypt returned the ciphertext that decrypt was given
C2_Witness ==
    /\ Returned("decrypt") /\ calls = 2
    /\ a2 = SelfTestKey
    /\ orig = SelfTestPlaintext
    /\ a1 = SelfTestCipher
    /\ ret = SelfTestPlaintext

\* C3: generate_subkeys(K) returns K1 = P8 of the halves of P10(K) each rotated
\* left by 1 and K2 = P8 of the same halves each rotated left by 3, both 8 bits long.
C3_KeySchedule ==
    Returned("generate_subkeys") =>
        LET p10 == permute(a1, P10)
            L == SubSeq(p10, 1, 5)
            R == SubSeq(p10, 6, 10)
        IN  /\ ret[1] = permute(Rot(L, 1) \o Rot(R, 1), P8)
            /\ ret[2] = permute(Rot(L, 3) \o Rot(R, 3), P8)
            /\ Len(ret[1]) = 8 /\ IsBitString(ret[1])
            /\ Len(ret[2]) = 8 /\ IsBitString(ret[2])

\* a key for which rotating the original halves by 2 would give another K2
C3_Witness ==
    /\ Returned("generate_subkeys")
    /\ ret[1] # ret[2]
    /\ LET p10 == permute(a1, P10)
           L == SubSeq(p10, 1, 5)
           R == SubSeq(p10, 6, 10)
       IN  /\ ret[2] = permute(Rot(L, 3) \o Rot(R, 3), P8)
           /\ ret[2] # permute(Rot(L, 2) \o Rot(R, 2), P8)

\* C4: a call of encrypt or decrypt that has returned performed, after the key
\* schedule, IP, fk, the swap, fk and IP_INV, once each and in this order, encrypt
\* with K1 then K2 and decrypt with K2 then K1; nothing is returned before the last
\* stage; and decrypt's result is that of encrypt's pipeline with the subkeys exchanged.
C4_StageOrder ==
    /\ (fn \in {"encrypt", "decrypt"} /\ pc # "done") => (ret = None /\ Len(trace) < 6)
    /\ Returned("encrypt") =>
        /\ trace = <<"generate_subkeys", "IP", "fk(K1)", "swap", "fk(K2)", "IP_INV">>
        /\ ret = Pipeline(a1, generate_subkeys(a2)[1], generate_subkeys(a2)[2])
    /\ Returned("decrypt") =>
        /\ trace = <<"generate_subkeys", "IP", "fk(K2)", "swap", "fk(K1)", "IP_INV">>
        /\ ret = Pipeline(a1, generate_subkeys(a2)[2], generate_subkeys(a2)[1])

\* a decrypt call whose result differs from what encrypt's subkey order would give
C4_Witness ==
    /\ Returned("decrypt")
    /\ K1 # K2
    /\ ret = Pipeline(a1, K2, K1)
    /\ ret # Pipeline(a1, K1, K2)

\* C5: left_shift(bits, n), for non-empty bits and n >= 0, has the length of bits
\* and is bits rotated left by n modulo len(bits).
C5_LeftShiftModular ==
    (Returned("left_shift") /\ Len(a1) > 0 /\ a2 >= 0) =>
        /\ Len(ret) = Len(a1)
        /\ ret = Rot(a1, a2 % Len(a1))

\* C6: fk(L || R, k) is 8 bits long, ends in R unchanged and starts with
\* L xor P4(S0(first half of E) + S1(last half of E)), E = EP(R) xor k.
C6_Feistel ==
    Returned("fk") =>
        LET L == Left4(a1)
            R == Right4(a1)
            E == BitXor(permute(R, EP), a2)
            F == permute(sbox_lookup(Left4(E), S0) \o sbox_lookup(Right4(E), S1), P4)
        IN  /\ Len(ret) = 8 /\ IsBitString(ret)
            /\ Right4(ret) = R
            /\ Left4(ret) = BitXor(L, F)

\* a round that changes the left half and whose two S-boxes give different outputs
C6_Witness ==
    /\ Returned("fk")
    /\ Right4(ret) = Right4(a1)
    /\ Left4(ret) # Left4(a1)
    /\ LET E == BitXor(permute(Right4(a1), EP), a2)
       IN  /\ sbox_lookup(Right4(E), S1) # sbox_lookup(Right4(E), S0)
           /\ Left4(ret) = BitXor(Left4(a1),
                  permute(sbox_lookup(Left4(E), S0) \o sbox_lookup(Right4(E), S1), P4))

\* C7: xor returns a bit string, also for operands of different lengths: as long
\* as the shorter operand, its i-th bit the exclusive or of the operands' i-th bits.
C7_XorTruncates ==
    Returned("xor") =>
        /\ IsBitString(ret)
        /\ Len(ret) = Min(Len(a1), Len(a2))
        /\ \A i \in 1..Len(ret) : BitOf(ret[i]) = (BitOf(a1[i]) + BitOf(a2[i])) % 2

C7_Witness ==
    /\ Returned("xor")
    /\ Len(a1) > Len(a2) /\ Len(a2) > 1
    /\ Len(ret) = Len(a2)
    /\ IsBitString(ret)
    /\ \E i \in 1..Len(ret) : ret[i] = "1"

\* C8: permuting an 8-bit string by IP and the result by IP_INV gives the string back.
C8_IPInverse ==
    (Returned("permute") /\ Len(a1) = 8 /\ a2 = IP) => permute(ret, IP_INV) = a1

C8_Witness ==
    /\ Returned("permute") /\ Len(a1) = 8 /\ a2 = IP
    /\ ret # a1
    /\ permute(ret, IP_INV) = a1

\* C9: sbox_lookup(b0 b1 b2 b3, sbox) returns the two binary digits, most
\* significant first, of sbox[2*b0 + b3][2*b1 + b2], a value in 0..3.
C9_SboxLookup ==
    Returned("sbox_lookup") =>
        LET row == 2 * BitOf(a1[1]) + BitOf(a1[4])
            col == 2 * BitOf(a1[2]) + BitOf(a1[3])
            val == a2[row + 1][col + 1]
        IN  /\ val \in 0..3
            /\ Len(ret) = 2 /\ IsBitString(ret)
            /\ ret = <<CharOf(val \div 2), CharOf(val % 2)>>

\* a lookup in S1 whose row and column differ from those of the first and last two bits
C9_Witness ==
    /\ Returned("sbox_lookup")
    /\ a2 = S1
    /\ a1 = <<"0", "1", "0", "1">>
    /\ ret = <<"0", "1">>

\* C10: the caller that encrypts, under the same key, what decrypt returned
\* gets its block back: encrypt(decrypt(C, K), K) = C.
C10_ReverseRoundTrip ==
    (Returned("encrypt") /\ calls = 2) => ret = orig

C10_Witness ==
    /\ Returned("encrypt") /\ calls = 2
    /\ a1 # orig
    /\ a2 # SelfTestKey
    /\ ret = orig

====
